---- MODULE Spec2Model ----
(***************************************************************************)
(* Model of the answer-sheet evaluation code of EvalMate                   *)
(* (src/advanced-evaluation.js).                                           *)
(*                                                                         *)
(* Three specifications share the module:                                  *)
(*   SpecScore  the scorer evaluateAnswerWithAI applied to one answer      *)
(*   Spec       performAIEvaluation building one report                    *)
(*   SpecSheet  evaluateAnswerSheet: feature probe, real path, mock        *)
(*              fallback, timers and the result display                    *)
(*                                                                         *)
(* Numbers.  JavaScript numbers are IEEE doubles.  Confidences are kept    *)
(* in hundredths (0..100 stands for 0.00..1.00) and scores in thousandths  *)
(* (1000 stands for 1.0), so conceptScore + confidence * 0.1 + bonus is    *)
(* an integer sum.  For every maxMarks up to 24 the double evaluation of   *)
(* Math.round(finalScore * maxMarks) and of the >= maxMarks * 0.8 / 0.6 /  *)
(* 0.4 tests agrees with this exact arithmetic on all these inputs (the    *)
(* first disagreement is maxMarks = 25, conceptScore 0.6, confidence 0.6), *)
(* so the bounds below stay under 25.                                      *)
(*                                                                         *)
(* Strings are sequences of one-character strings, so that toLowerCase     *)
(* and includes are computed, not assumed.                                 *)
(***************************************************************************)
EXTENDS Integers, Sequences, FiniteSets, TLC

VARIABLES
    studentAnswer,      \* SpecScore: first argument of evaluateAnswerWithAI
    modelAnswer,        \* SpecScore: second argument
    maxMarks,           \* SpecScore: third argument
    evaluation,         \* SpecScore: the value returned, or Pending
    ocrResults,         \* Spec: first argument of performAIEvaluation
    questionPaper,      \* Spec: second argument
    answerKey,          \* Spec: third argument
    evaluationResults,  \* Spec: the report returned, or Pending
    pc,                 \* SpecSheet: position of each invocation
    failed,             \* SpecSheet: the call of the invocation that failed
    shown,              \* SpecSheet: the report each invocation displayed
    resultDiv,          \* SpecSheet: content of #evaluationResult
    alerted,            \* SpecSheet: invocations that raised an alert()
    stages,             \* SpecSheet: the stages each invocation completed, in order
    progress,           \* SpecSheet: the percentages each invocation has shown, in order
    user,               \* SpecAuth: AuthProvider's user state
    token,              \* SpecAuth: AuthProvider's token state
    loading,            \* SpecAuth: AuthProvider's loading state
    effectPending,      \* SpecAuth: the effect on [token] is due to run
    loginRequests,      \* SpecAuth: login posts in flight, per account
    profileRequests,    \* SpecAuth: GET /api/auth/me requests in flight, per token sent
    route,              \* SpecAuth: the userType prop of the mounted ProtectedRoute
    page                \* SpecAuth: what the ProtectedRoute renders

scoreVars == <<studentAnswer, modelAnswer, maxMarks, evaluation>>
reportVars == <<ocrResults, questionPaper, answerKey, evaluationResults>>
sheetVars == <<pc, failed, shown, resultDiv, alerted, stages, progress>>
authVars == <<user, token, loading, effectPending, loginRequests,
              profileRequests, route, page>>
vars == <<scoreVars, reportVars, sheetVars, authVars>>

(***************************************************************************)
(* Bounds of the model.                                                    *)
(***************************************************************************)
MaxMarks == 11
MaxKeywords == 3
MaxTextLen == 2
MaxQuestions == 2
MaxPaperMarks == 2
MaxTotalMarks == 7
MaxInvocations == 2
MaxBandKeywords == 5
MaxInFlight == 2

Pending == [pending |-> TRUE]
Undefined == [undefined |-> TRUE]
Null == [null |-> TRUE]

(***************************************************************************)
(* Strings.                                                                *)
(***************************************************************************)
Alphabet == {"a", "B", " "}

toLowerCaseChar(c) == IF c = "B" THEN "b" ELSE c

toLowerCase(s) == [i \in 1..Len(s) |-> toLowerCaseChar(s[i])]

\* String.prototype.includes: kw occurs in s as a contiguous substring.
includes(s, kw) ==
    \E i \in 0..(Len(s) - Len(kw)) : SubSeq(s, i + 1, i + Len(kw)) = kw

Texts == UNION {[1..n -> Alphabet] : n \in 0..MaxTextLen}

\* The reference keywords used by the model: one single-letter keyword
\* written in lower case and one two-letter keyword written in mixed case.
KeywordA == <<"a">>
KeywordAB == <<"a", "B">>

Repeat(x, n) == [i \in 1..n |-> x]

\* Keyword lists: i copies of KeywordA followed by j copies of KeywordAB.
KeywordLists ==
    {Repeat(KeywordA, i) \o Repeat(KeywordAB, j) :
        i \in 0..MaxKeywords, j \in 0..MaxKeywords} \cap
    UNION {[1..n -> {KeywordA, KeywordAB}] : n \in 0..MaxKeywords}

\* Confidences in hundredths: 0.00, 0.05, ..., 1.00.
Confidences == {5 * k : k \in 0..20}

HandwritingQualities == {"clear", "good", "fair", "poor", "unknown"}

(***************************************************************************)
(* evaluateAnswerWithAI.                                                   *)
(***************************************************************************)
\* keywordMatches: the keywords found in the lower-cased answer text.
keywordMatches(studentText, keywords) ==
    Cardinality({i \in 1..Len(keywords) : includes(studentText, keywords[i])})

\* keywordScore = keywordMatches / keywords.length, kept as a fraction;
\* den = 0 is the NaN that 0 / 0 yields.
keywordScore(answer, model) ==
    LET studentText == toLowerCase(answer.text)
        keywords == [i \in 1..Len(model.keywords) |-> toLowerCase(model.keywords[i])]
    IN  [num |-> keywordMatches(studentText, keywords), den |-> Len(keywords)]

\* The comparison with the cutpoint included.
ScoreGTMutantInclusive(score, tenths) ==
    score.den # 0 /\ score.num * 10 >= tenths * score.den

\* score > tenths / 10 and score < tenths / 10; both are false on NaN.
ScoreGT(score, tenths) == score.den # 0 /\ score.num * 10 > tenths * score.den
ScoreLT(score, tenths) == score.den # 0 /\ score.num * 10 < tenths * score.den

\* conceptScore with the top band set below the second one.
conceptScoreMutantDip(score) ==
    IF ScoreGT(score, 8) THEN 600
    ELSE IF ScoreGT(score, 6) THEN 800
    ELSE IF ScoreGT(score, 4) THEN 600
    ELSE IF ScoreGT(score, 2) THEN 400
    ELSE 200

\* conceptScore with the top band set to 0.8 instead of 1.0.
conceptScoreMutantBand(score) ==
    IF ScoreGT(score, 8) THEN 800
    ELSE IF ScoreGT(score, 6) THEN 800
    ELSE IF ScoreGT(score, 4) THEN 600
    ELSE IF ScoreGT(score, 2) THEN 400
    ELSE 200

\* conceptScore in thousandths.
conceptScore(score) ==
    IF ScoreGT(score, 8) THEN 1000
    ELSE IF ScoreGT(score, 6) THEN 800
    ELSE IF ScoreGT(score, 4) THEN 600
    ELSE IF ScoreGT(score, 2) THEN 400
    ELSE 200

\* ocrAdjustment with the factor 0.2.
ocrAdjustmentMutantDouble(answer) == 2 * answer.confidence

\* ocrAdjustment = confidence * 0.1, in thousandths.
ocrAdjustment(answer) == answer.confidence

\* handwritingBonus with the bonus of "clear" also given to "good".
handwritingBonusMutantGood(answer) ==
    IF answer.handwriting_quality = "clear" THEN 50
    ELSE IF answer.handwriting_quality = "good" THEN 50
    ELSE 0

handwritingBonus(answer) ==
    IF answer.handwriting_quality = "clear" THEN 50
    ELSE IF answer.handwriting_quality = "good" THEN 30
    ELSE 0

Min(a, b) == IF a <= b THEN a ELSE b

\* finalScore without the Math.min cap.
finalScoreMutantNoCap(answer, model) ==
    conceptScore(keywordScore(answer, model)) + ocrAdjustment(answer)
        + handwritingBonus(answer)

\* finalScore capped at 1.0, in thousandths.
finalScore(answer, model) ==
    Min(conceptScore(keywordScore(answer, model)) + ocrAdjustment(answer)
            + handwritingBonus(answer), 1000)

\* Math.round(finalScore * maxMarks): halves round up.
obtainedMarks(answer, model, marks) ==
    (finalScore(answer, model) * marks + 500) \div 1000

\* The status chain with the obtainedMarks > 0 branch yielding partial.
statusMutantLowBand(obtained, marks) ==
    IF obtained = marks THEN "correct"
    ELSE IF obtained * 10 >= marks * 8 THEN "correct"
    ELSE IF obtained * 10 >= marks * 6 THEN "partial"
    ELSE IF obtained * 10 >= marks * 4 THEN "partial"
    ELSE IF obtained > 0 THEN "partial"
    ELSE "incorrect"

\* The status chain with the 0.6 branch yielding correct.
statusMutantHighBand(obtained, marks) ==
    IF obtained = marks THEN "correct"
    ELSE IF obtained * 10 >= marks * 8 THEN "correct"
    ELSE IF obtained * 10 >= marks * 6 THEN "correct"
    ELSE IF obtained * 10 >= marks * 4 THEN "partial"
    ELSE IF obtained > 0 THEN "incorrect"
    ELSE "incorrect"

\* status: the if chain on obtainedMarks against maxMarks * 0.8 / 0.6 / 0.4.
statusOf(obtained, marks) ==
    IF obtained = marks THEN "correct"
    ELSE IF obtained * 10 >= marks * 8 THEN "correct"
    ELSE IF obtained * 10 >= marks * 6 THEN "partial"
    ELSE IF obtained * 10 >= marks * 4 THEN "partial"
    ELSE IF obtained > 0 THEN "incorrect"
    ELSE "incorrect"

feedbackTemplate(obtained, marks) ==
    IF obtained = marks THEN "Excellent answer with complete understanding"
    ELSE IF obtained * 10 >= marks * 8 THEN "Very good answer, minor improvements needed"
    ELSE IF obtained * 10 >= marks * 6 THEN "Good understanding shown, needs more detail"
    ELSE IF obtained * 10 >= marks * 4 THEN "Partial understanding, review concepts"
    ELSE IF obtained > 0 THEN "Limited understanding, needs significant improvement"
    ELSE "Incorrect or incomplete answer"

\* The feedback with the two qualifiers appended in the other order.
feedbackMutantSwapped(answer, model, obtained, marks) ==
    <<feedbackTemplate(obtained, marks)>>
    \o (IF answer.confidence < 80
        THEN <<" - Handwriting clarity could be improved">> ELSE <<>>)
    \o (IF ScoreLT(keywordScore(answer, model), 5)
        THEN <<" - Missing key concepts">> ELSE <<>>)

\* The feedback string, as the sequence of the pieces concatenated.
feedbackOf(answer, model, obtained, marks) ==
    <<feedbackTemplate(obtained, marks)>>
    \o (IF ScoreLT(keywordScore(answer, model), 5)
        THEN <<" - Missing key concepts">> ELSE <<>>)
    \o (IF answer.confidence < 80
        THEN <<" - Handwriting clarity could be improved">> ELSE <<>>)

evaluateAnswerWithAI(answer, model, marks) ==
    IF answer = Undefined
    THEN [marks |-> 0, feedback |-> <<"No answer detected">>, status |-> "skipped"]
    ELSE LET obtained == obtainedMarks(answer, model, marks)
         IN  [marks |-> obtained,
              feedback |-> feedbackOf(answer, model, obtained, marks),
              status |-> statusOf(obtained, marks)]

(***************************************************************************)
(* SpecScore: evaluateAnswerWithAI applied to one (answer, reference,      *)
(* maxMarks) triple.                                                       *)
(***************************************************************************)
ExtractedAnswers ==
    [text : Texts, confidence : Confidences,
     handwriting_quality : HandwritingQualities]

ModelAnswers == [keywords : KeywordLists]

IdleScore ==
    /\ studentAnswer = Undefined
    /\ modelAnswer = [keywords |-> <<>>]
    /\ maxMarks = 1
    /\ evaluation = Pending

IdleReport ==
    /\ ocrResults = Pending
    /\ questionPaper = Pending
    /\ answerKey = Pending
    /\ evaluationResults = Pending

IdleAuth ==
    /\ user = Null
    /\ token = Null
    /\ loading = TRUE
    /\ effectPending = FALSE
    /\ loginRequests = <<>>
    /\ profileRequests = <<>>
    /\ route = "undefined"
    /\ page = "spinner"

IdleSheet ==
    /\ pc = <<>>
    /\ failed = <<>>
    /\ shown = <<>>
    /\ resultDiv = [kind |-> "empty"]
    /\ alerted = {}
    /\ stages = <<>>
    /\ progress = <<>>

InitScore ==
    /\ studentAnswer \in ExtractedAnswers \cup {Undefined}
    /\ modelAnswer \in ModelAnswers
    /\ maxMarks \in 1..MaxMarks
    /\ evaluation = Pending
    /\ IdleReport
    /\ IdleSheet
    /\ IdleAuth

Score ==
    /\ evaluation = Pending
    /\ evaluation' = evaluateAnswerWithAI(studentAnswer, modelAnswer, maxMarks)
    /\ UNCHANGED <<studentAnswer, modelAnswer, maxMarks, reportVars, sheetVars, authVars>>

NextScore == Score

SpecScore == InitScore /\ [][NextScore]_vars

(***************************************************************************)
(* performAIEvaluation.                                                    *)
(***************************************************************************)
\* Array.prototype.includes on an array of question numbers.
arrayIncludes(array, qNum) == \E i \in 1..Len(array) : array[i] = qNum

\* The marks, feedback and status one pass of the loop body assigns.
questionOutcome(qNum, ocr, paper, key) ==
    IF arrayIncludes(ocr.skippedQuestions, qNum)
    THEN [marks |-> 0,
          feedback |-> <<"Question not attempted - no text detected by OCR">>,
          status |-> "skipped"]
    ELSE IF arrayIncludes(ocr.detectedQuestions, qNum)
    THEN evaluateAnswerWithAI(ocr.extractedAnswers[qNum],
                              key.modelAnswers[qNum],
                              paper.questionMarks[qNum])
    ELSE [marks |-> 0, feedback |-> <<>>, status |-> "not-attempted"]

\* ocrResults.extractedAnswers[qNum]?.confidence || 0
ocrConfidenceOf(qNum, ocr) ==
    IF ocr.extractedAnswers[qNum] = Undefined
    THEN 0
    ELSE ocr.extractedAnswers[qNum].confidence

\* The object pushed on questionDetails.
questionDetail(qNum, ocr, paper, key) ==
    LET result == questionOutcome(qNum, ocr, paper, key)
    IN  [qno |-> qNum,
         marks_allocated |-> paper.questionMarks[qNum],
         marks_obtained |-> result.marks,
         feedback |-> result.feedback,
         status |-> result.status,
         question_type |-> paper.questionTypes[qNum],
         ocr_confidence |-> ocrConfidenceOf(qNum, ocr)]

\* The loop condition written with < instead of <=.
loopContinuesMutantStrict(qNum, paper) == qNum < paper.totalQuestions

\* The loop condition qNum <= questionPaper.totalQuestions.
loopContinues(qNum, paper) == qNum <= paper.totalQuestions

\* The accumulation written with = instead of +=.
accumulateMutantAssign(totalObtained, obtained) == obtained

\* totalObtained += obtainedMarks
accumulate(totalObtained, obtained) == totalObtained + obtained

\* The for loop from qNum on: the details pushed and the total accumulated.
RECURSIVE evaluationLoop(_, _, _, _, _, _)
evaluationLoop(qNum, questionDetails, totalObtained, ocr, paper, key) ==
    IF loopContinues(qNum, paper)
    THEN LET detail == questionDetail(qNum, ocr, paper, key)
         IN  evaluationLoop(qNum + 1,
                            Append(questionDetails, detail),
                            accumulate(totalObtained, detail.marks_obtained),
                            ocr, paper, key)
    ELSE [questionDetails |-> questionDetails, totalObtained |-> totalObtained]

\* A piece of generated text: the literal text of the template and the
\* values interpolated into it, in order.
Piece(text, values) == [text |-> text, values |-> values]

percentageBand(obtained, total) ==
    IF 100 * obtained >= 90 * total
        THEN "Outstanding performance! Excellent mastery of the subject matter. "
    ELSE IF 100 * obtained >= 80 * total
        THEN "Very good performance with strong conceptual understanding. "
    ELSE IF 100 * obtained >= 70 * total
        THEN "Good performance with solid foundation, room for improvement in some areas. "
    ELSE IF 100 * obtained >= 60 * total
        THEN "Satisfactory performance. Focus on strengthening core concepts. "
    ELSE "Needs significant improvement. Comprehensive review of material recommended. "

\* if (ocrResults.ocrConfidence < 0.85) feedback += "Note: ..."
ocrCaveat(ocr) ==
    IF ocr.ocrConfidence < 85
    THEN <<Piece("Note: Some answers had handwriting clarity issues which may have affected evaluation. ", <<>>)>>
    ELSE <<>>

\* if (ocrResults.skippedQuestions.length > 0) feedback += `${length}
\* questions were not attempted - work on time management. `
timeManagementNote(ocr) ==
    IF Len(ocr.skippedQuestions) > 0
    THEN <<Piece(" questions were not attempted - work on time management. ",
                 <<Len(ocr.skippedQuestions)>>)>>
    ELSE <<>>

\* overallFeedback, as the sequence of the pieces concatenated.
generateIntelligentFeedback(obtained, total, ocr) ==
    <<Piece(percentageBand(obtained, total), <<>>)>>
    \o ocrCaveat(ocr)
    \o timeManagementNote(ocr)

identifyAdvancedImprovements(details, skippedQuestions) ==
    LET poor(q) == q.status = "incorrect"
        partial(q) == q.status = "partial"
                        /\ 10 * q.marks_obtained < 6 * q.marks_allocated
        lowOcr(q) == q.ocr_confidence # 0 /\ q.ocr_confidence < 80
        poorAnswers ==
            Cardinality({k \in 1..Len(details) : poor(details[k])})
        partialAnswers ==
            Cardinality({k \in 1..Len(details) : partial(details[k])})
        lowOcrConfidence ==
            Cardinality({k \in 1..Len(details) : lowOcr(details[k])})
    IN  (IF Len(skippedQuestions) > 0
         THEN <<Piece("Attempt all questions (Questions  were skipped)",
                      skippedQuestions)>>
         ELSE <<>>)
        \o (IF poorAnswers > 0
            THEN <<Piece("Review fundamental concepts ( questions need significant work)",
                         <<poorAnswers>>)>>
            ELSE <<>>)
        \o (IF partialAnswers > 0
            THEN <<Piece("Provide more detailed explanations ( questions had incomplete answers)",
                         <<partialAnswers>>)>>
            ELSE <<>>)
        \o (IF lowOcrConfidence > 0
            THEN <<Piece("Improve handwriting clarity for better evaluation", <<>>)>>
            ELSE <<>>)
        \o <<Piece("Practice more problems for concept reinforcement", <<>>),
             Piece("Work on time management to complete all questions", <<>>)>>

toFixedMutantTruncate(num, den) ==
    LET n == (1000 * num) \div den
    IN  [units |-> n \div 10, tenths |-> n % 10]

\* ((num / den) * 100).toFixed(1) for num >= 0 and den > 0: the decimal
\* string "units.tenths" of the n for which n / 10 is nearest to the value,
\* the larger n when two are equally near.
toFixed(num, den) ==
    LET n == (2000 * num + den) \div (2 * den)
    IN  [units |-> n \div 10, tenths |-> n % 10]

\* The report returned (the grade, the strengths list and the processing
\* time are not modelled).
performAIEvaluation(ocr, paper, key) ==
    LET loop == evaluationLoop(1, <<>>, 0, ocr, paper, key)
    IN  [totalMarks |-> paper.totalMarks,
         obtainedMarks |-> loop.totalObtained,
         percentage |-> toFixed(loop.totalObtained, paper.totalMarks),
         questionDetails |-> loop.questionDetails,
         answeredCount |-> Len(ocr.detectedQuestions),
         skippedCount |-> Len(ocr.skippedQuestions),
         totalQuestions |-> paper.totalQuestions,
         ocrQuality |-> ocr.ocrConfidence,
         overallFeedback |->
             generateIntelligentFeedback(loop.totalObtained, paper.totalMarks, ocr),
         improvements |->
             identifyAdvancedImprovements(loop.questionDetails, ocr.skippedQuestions)]

(***************************************************************************)
(* Spec: performAIEvaluation applied to one (ocrResults, questionPaper,    *)
(* answerKey) triple.                                                      *)
(***************************************************************************)
\* The question numbers of a set, as an ascending array.
RECURSIVE ascending(_)
ascending(S) ==
    IF S = {} THEN <<>>
    ELSE LET m == CHOOSE x \in S : \A y \in S : x <= y
         IN  <<m>> \o ascending(S \ {m})

\* The answers the extraction step can hand over for one question: none,
\* an empty text, or the text "a".
SheetAnswers ==
    {Undefined} \cup
    {[text |-> t, confidence |-> 90, handwriting_quality |-> "clear"] :
        t \in {<<>>, <<"a">>}}

OcrResults(n) ==
    {[detectedQuestions |-> ascending(d),
      skippedQuestions |-> ascending(k),
      extractedAnswers |-> e,
      ocrConfidence |-> 86] :
        d \in SUBSET (1..n), k \in SUBSET (1..n), e \in [1..n -> SheetAnswers]}

QuestionPapers(n) ==
    {[totalQuestions |-> n,
      totalMarks |-> t,
      questionMarks |-> m,
      questionTypes |-> [q \in 1..n |-> "Short"]] :
        t \in 1..MaxTotalMarks, m \in [1..n -> 1..MaxPaperMarks]}

AnswerKeys(n) ==
    {[modelAnswers |-> [q \in 1..n |-> [keywords |-> <<KeywordA>>]]]}

Init ==
    /\ \E n \in 1..MaxQuestions :
        /\ ocrResults \in OcrResults(n)
        /\ questionPaper \in QuestionPapers(n)
        /\ answerKey \in AnswerKeys(n)
    /\ evaluationResults = Pending
    /\ IdleScore
    /\ IdleSheet
    /\ IdleAuth

Evaluate ==
    /\ evaluationResults = Pending
    /\ evaluationResults' = performAIEvaluation(ocrResults, questionPaper, answerKey)
    /\ UNCHANGED <<ocrResults, questionPaper, answerKey, scoreVars, sheetVars, authVars>>

Next == Evaluate

Spec == Init /\ [][Next]_vars

(***************************************************************************)
(* SpecSheet: evaluateAnswerSheet.  Every invocation is one click on the   *)
(* evaluate button; its awaits and timers are the steps.  The calls that   *)
(* performEnhancedMockEvaluation awaits inside a timer callback are local  *)
(* async functions that settle at once, so a callback is one step.         *)
(***************************************************************************)
Invocations == 1..MaxInvocations

\* The page while the evaluation runs (updateProgress) and once it has
\* ended (displayAdvancedEvaluationResults).
progressPage(i, step, percentage) ==
    [kind |-> "progress", by |-> i, step |-> step, percentage |-> percentage]

resultsPage(i, source) == [kind |-> "results", by |-> i, source |-> source]

\* The failures of the extraction call POST
\* /api/advanced-evaluation/process-answer-sheet: the fetch rejects, the
\* response is not OK, the body does not parse.
ExtractionFailures == {"network", "not-ok", "body"}

\* The timer chain with the 100% update left out.
mockProgressMutantSkipLast ==
    [mock_t1 |-> [step |-> 1, percentage |-> 15, next |-> "mock_t2",
                  completes |-> <<"extraction">>],
     mock_t2 |-> [step |-> 2, percentage |-> 30, next |-> "mock_t3",
                  completes |-> <<"paper-analysis">>],
     mock_t3 |-> [step |-> 3, percentage |-> 50, next |-> "mock_t4",
                  completes |-> <<"answer-key">>],
     mock_t4 |-> [step |-> 4, percentage |-> 70, next |-> "mock_t5",
                  completes |-> <<>>],
     mock_t5 |-> [step |-> 5, percentage |-> 90, next |-> "mock_report",
                  completes |-> <<>>],
     mock_t6 |-> [step |-> 6, percentage |-> 100, next |-> "mock_report",
                  completes |-> <<>>]]

\* A catch block that logs the error and returns.
AfterCatchMutantSwallow(failure) == "done"

\* Where an invocation goes on once a catch block has run: both catch
\* blocks call performEnhancedMockEvaluation, which sets its first timer.
AfterCatch(failure) == "mock_t1"

\* The timer chain of performEnhancedMockEvaluation: the progress each
\* callback shows and the callback it schedules.
mockProgressMutantLateOCR ==
    [mock_t1 |-> [step |-> 1, percentage |-> 15, next |-> "mock_t2",
                  completes |-> <<>>],
     mock_t2 |-> [step |-> 2, percentage |-> 30, next |-> "mock_t3",
                  completes |-> <<"paper-analysis">>],
     mock_t3 |-> [step |-> 3, percentage |-> 50, next |-> "mock_t4",
                  completes |-> <<"answer-key", "extraction">>],
     mock_t4 |-> [step |-> 4, percentage |-> 70, next |-> "mock_t5",
                  completes |-> <<>>],
     mock_t5 |-> [step |-> 5, percentage |-> 90, next |-> "mock_t6",
                  completes |-> <<>>],
     mock_t6 |-> [step |-> 6, percentage |-> 100, next |-> "mock_report",
                  completes |-> <<>>]]

\* "completes" is the stage the callback awaits after its progress update:
\* performAdvancedOCR in the first, analyzeQuestionPaperWithOCR in the second,
\* processAnswerKeyWithAI in the third, none in the last three.
mockProgress ==
    [mock_t1 |-> [step |-> 1, percentage |-> 15, next |-> "mock_t2",
                  completes |-> <<"extraction">>],
     mock_t2 |-> [step |-> 2, percentage |-> 30, next |-> "mock_t3",
                  completes |-> <<"paper-analysis">>],
     mock_t3 |-> [step |-> 3, percentage |-> 50, next |-> "mock_t4",
                  completes |-> <<"answer-key">>],
     mock_t4 |-> [step |-> 4, percentage |-> 70, next |-> "mock_t5",
                  completes |-> <<>>],
     mock_t5 |-> [step |-> 5, percentage |-> 90, next |-> "mock_t6",
                  completes |-> <<>>],
     mock_t6 |-> [step |-> 6, percentage |-> 100, next |-> "mock_report",
                  completes |-> <<>>]]

\* What the last callback does, in the order of its statements:
\* performAIEvaluation scores every question in its loop, computes the
\* summary of the report after the loop, and the report is then displayed.
reportStages == <<"scoring", "aggregation", "display">>

InitSheet ==
    /\ pc = [i \in Invocations |-> "idle"]
    /\ failed = [i \in Invocations |-> "none"]
    /\ shown = [i \in Invocations |-> "none"]
    /\ resultDiv = [kind |-> "empty"]
    /\ alerted = {}
    /\ stages = [i \in Invocations |-> <<>>]
    /\ progress = [i \in Invocations |-> <<>>]
    /\ IdleScore
    /\ IdleReport
    /\ IdleAuth

\* evaluateAnswerSheet up to its first await: without a file it alerts and
\* returns, with one it shows the 15% banner and probes /api/features.
Start(i) ==
    /\ pc[i] = "idle"
    /\ \E answerSheetFile \in BOOLEAN :
        IF ~answerSheetFile
        THEN /\ alerted' = alerted \cup {i}
             /\ pc' = [pc EXCEPT ![i] = "done"]
             /\ UNCHANGED <<resultDiv, progress>>
        ELSE /\ resultDiv' = progressPage(i, 1, 15)
             /\ progress' = [progress EXCEPT ![i] = Append(@, 15)]
             /\ pc' = [pc EXCEPT ![i] = "features_fetch"]
             /\ UNCHANGED alerted
    /\ UNCHANGED <<failed, shown, stages, scoreVars, reportVars, authVars>>

\* await fetch('/api/features') settles.
FeaturesFetchSettles(i) ==
    /\ pc[i] = "features_fetch"
    /\ \E resolved \in BOOLEAN :
        IF resolved
        THEN /\ pc' = [pc EXCEPT ![i] = "features_json"]
             /\ UNCHANGED failed
        ELSE /\ failed' = [failed EXCEPT ![i] = "features"]
             /\ pc' = [pc EXCEPT ![i] = AfterCatch("features")]
    /\ UNCHANGED <<shown, resultDiv, progress, alerted, stages, scoreVars, reportVars, authVars>>

\* await featuresResponse.json() settles, and the branch on the features.
FeaturesJsonSettles(i) ==
    /\ pc[i] = "features_json"
    /\ \E features \in {"advanced", "basic", "unparsable"} :
        CASE features = "advanced" ->
                /\ resultDiv' = progressPage(i, 1, 30)
                /\ progress' = [progress EXCEPT ![i] = Append(@, 30)]
                /\ pc' = [pc EXCEPT ![i] = "process_fetch"]
                /\ UNCHANGED failed
          [] features = "basic" ->
                /\ pc' = [pc EXCEPT ![i] = "mock_t1"]
                /\ UNCHANGED <<failed, resultDiv, progress>>
          [] features = "unparsable" ->
                /\ failed' = [failed EXCEPT ![i] = "features"]
                /\ pc' = [pc EXCEPT ![i] = AfterCatch("features")]
                /\ UNCHANGED <<resultDiv, progress>>
    /\ UNCHANGED <<shown, alerted, stages, scoreVars, reportVars, authVars>>

\* The extraction call settles: await fetch(process-answer-sheet).
ProcessFetchSettles(i) ==
    /\ pc[i] = "process_fetch"
    /\ \E response \in {"ok", "not-ok", "network"} :
        IF response = "ok"
        THEN /\ resultDiv' = progressPage(i, 2, 50)
             /\ progress' = [progress EXCEPT ![i] = Append(@, 50)]
             /\ pc' = [pc EXCEPT ![i] = "process_json"]
             /\ UNCHANGED failed
        ELSE /\ failed' = [failed EXCEPT ![i] = response]
             /\ pc' = [pc EXCEPT ![i] = AfterCatch(response)]
             /\ UNCHANGED <<resultDiv, progress>>
    /\ UNCHANGED <<shown, alerted, stages, scoreVars, reportVars, authVars>>

\* await response.json() settles.
ProcessJsonSettles(i) ==
    /\ pc[i] = "process_json"
    /\ \E parsed \in BOOLEAN :
        IF parsed
        THEN /\ resultDiv' = progressPage(i, 3, 80)
             /\ progress' = [progress EXCEPT ![i] = Append(@, 80)]
             /\ pc' = [pc EXCEPT ![i] = "real_t1"]
             /\ UNCHANGED failed
        ELSE /\ failed' = [failed EXCEPT ![i] = "body"]
             /\ pc' = [pc EXCEPT ![i] = AfterCatch("body")]
             /\ UNCHANGED <<resultDiv, progress>>
    /\ UNCHANGED <<shown, alerted, stages, scoreVars, reportVars, authVars>>

\* The 2000 ms timer of the real path.
RealTimer(i) ==
    /\ pc[i] = "real_t1"
    /\ resultDiv' = progressPage(i, 4, 100)
    /\ progress' = [progress EXCEPT ![i] = Append(@, 100)]
    /\ pc' = [pc EXCEPT ![i] = "real_t2"]
    /\ UNCHANGED <<failed, shown, alerted, stages, scoreVars, reportVars, authVars>>

\* The 1500 ms timer of the real path: the server's report is displayed.
RealReport(i) ==
    /\ pc[i] = "real_t2"
    /\ resultDiv' = resultsPage(i, "real")
    /\ shown' = [shown EXCEPT ![i] = "real"]
    /\ pc' = [pc EXCEPT ![i] = "done"]
    /\ stages' = [stages EXCEPT ![i] = @ \o <<"display">>]
    /\ UNCHANGED <<failed, alerted, progress, scoreVars, reportVars, authVars>>

\* One of the six progress timers of the mock path.
MockTimer(i) ==
    /\ pc[i] \in DOMAIN mockProgress
    /\ resultDiv' = progressPage(i, mockProgress[pc[i]].step,
                                 mockProgress[pc[i]].percentage)
    /\ progress' = [progress EXCEPT ![i] =
                        Append(@, mockProgress[pc[i]].percentage)]
    /\ pc' = [pc EXCEPT ![i] = mockProgress[pc[i]].next]
    /\ stages' = [stages EXCEPT ![i] = @ \o mockProgress[pc[i]].completes]
    /\ UNCHANGED <<failed, shown, alerted, scoreVars, reportVars, authVars>>

\* The last timer of the mock path: performAIEvaluation on the built-in
\* answers, answer key and question paper, and the display of its report.
MockReport(i) ==
    /\ pc[i] = "mock_report"
    /\ resultDiv' = resultsPage(i, "mock")
    /\ shown' = [shown EXCEPT ![i] = "mock"]
    /\ pc' = [pc EXCEPT ![i] = "done"]
    /\ stages' = [stages EXCEPT ![i] = @ \o reportStages]
    /\ UNCHANGED <<failed, alerted, progress, scoreVars, reportVars, authVars>>

NextSheet ==
    \E i \in Invocations :
        \/ Start(i)
        \/ FeaturesFetchSettles(i)
        \/ FeaturesJsonSettles(i)
        \/ ProcessFetchSettles(i)
        \/ ProcessJsonSettles(i)
        \/ RealTimer(i)
        \/ RealReport(i)
        \/ MockTimer(i)
        \/ MockReport(i)

SpecSheet == InitSheet /\ [][NextSheet]_vars

(***************************************************************************)
(* Properties of the scorer, checked under SpecScore.                      *)
(***************************************************************************)
Scored == evaluation # Pending /\ studentAnswer # Undefined

\* The keywords of the reference that occur in the answer text, compared
\* without regard to case.
PresentKeywords ==
    {i \in 1..Len(modelAnswer.keywords) :
        includes(toLowerCase(studentAnswer.text),
                 toLowerCase(modelAnswer.keywords[i]))}

FullCoverage ==
    /\ Len(modelAnswer.keywords) > 0
    /\ PresentKeywords = 1..Len(modelAnswer.keywords)

ZeroCoverage ==
    /\ Len(modelAnswer.keywords) > 0
    /\ PresentKeywords = {}

BlankText == \A i \in 1..Len(studentAnswer.text) : studentAnswer.text[i] = " "

\* C3: every scored answer gets an integer number of marks between 0 and
\* maxMarks, whatever its confidence, handwriting quality and coverage.
C3_MarksWithinRange ==
    Scored => evaluation.marks \in 0..maxMarks

\* C3 witness: the cap is at work: all keywords present, confidence 1.0 and
\* clear handwriting (1.0 + 0.1 + 0.05) at the largest maxMarks.
C3_Witness ==
    /\ Scored
    /\ FullCoverage
    /\ studentAnswer.confidence = 100
    /\ studentAnswer.handwriting_quality = "clear"
    /\ maxMarks = MaxMarks
    /\ evaluation.marks = maxMarks

\* C4 as stated: an answer whose text is empty or only whitespace is
\* Skipped with 0 marks.  The scorer only tests whether the answer object
\* is absent, so this fails.
C4_BlankTextIsSkipped ==
    (Scored /\ BlankText /\ Len(modelAnswer.keywords) > 0) =>
        (evaluation.status = "skipped" /\ evaluation.marks = 0)

\* C7 as stated: with an empty keyword list the scorer fails with a
\* ConfigurationError and computes no marks.  The code divides 0 by 0 and
\* goes on with NaN, so this fails.
C7_EmptyKeywordsRejected ==
    (Scored /\ modelAnswer.keywords = <<>>) =>
        ("marks" \notin DOMAIN evaluation)

\* C9: an answer containing every reference keyword gets full marks and
\* status Correct for every confidence, handwriting quality and maxMarks.
C9_FullCoverageFullMarks ==
    (Scored /\ FullCoverage) =>
        (evaluation.marks = maxMarks /\ evaluation.status = "correct")

\* C9 witness: full coverage reached with the weakest signal quality
\* (confidence 0, poor handwriting) and by a mixed-case keyword.
C9_Witness ==
    /\ Scored
    /\ FullCoverage
    /\ KeywordAB \in {modelAnswer.keywords[i] : i \in 1..Len(modelAnswer.keywords)}
    /\ studentAnswer.confidence = 0
    /\ studentAnswer.handwriting_quality = "poor"
    /\ maxMarks > 1
    /\ evaluation.status = "correct"

\* C10 as stated: a non-empty answer containing no reference keyword is
\* always Incorrect.  Rounding lifts it to Partial for maxMarks 2, 5 and 10.
C10_ZeroCoverageIncorrect ==
    (Scored /\ ZeroCoverage /\ studentAnswer.text # <<>>) =>
        evaluation.status = "incorrect"

\* C10 amended: a non-empty answer containing no reference keyword is never
\* Correct, and it is Incorrect for every maxMarks other than 2, 5 and 10.
C10_ZeroCoverageNeverCorrect ==
    (Scored /\ ZeroCoverage /\ studentAnswer.text # <<>>) =>
        /\ evaluation.status \in {"incorrect", "partial"}
        /\ (maxMarks \notin {2, 5, 10} => evaluation.status = "incorrect")

\* C10 witness: no keyword found, marks above 0 and status Incorrect at a
\* maxMarks above 10.
C10_Witness ==
    /\ Scored
    /\ ZeroCoverage
    /\ studentAnswer.text # <<>>
    /\ maxMarks > 10
    /\ evaluation.marks > 0
    /\ evaluation.status = "incorrect"

(***************************************************************************)
(* Properties of the report, checked under Spec.                           *)
(***************************************************************************)
Reported == evaluationResults # Pending

RECURSIVE SumMarksObtained(_)
SumMarksObtained(details) ==
    IF details = <<>> THEN 0
    ELSE details[1].marks_obtained + SumMarksObtained(Tail(details))

\* C1: the report holds exactly N question results, numbered 1, 2, ..., N
\* in this order, whatever the detected and skipped lists and the extracted
\* answers are.
C1_OneResultPerQuestion ==
    Reported =>
        /\ Len(evaluationResults.questionDetails) = questionPaper.totalQuestions
        /\ \A i \in 1..Len(evaluationResults.questionDetails) :
              evaluationResults.questionDetails[i].qno = i

\* C1 witness: a report over the largest question count whose lists are
\* inconsistent: question 1 is both detected and skipped, the last question
\* is in neither list.
C1_Witness ==
    /\ Reported
    /\ questionPaper.totalQuestions = MaxQuestions
    /\ arrayIncludes(ocrResults.detectedQuestions, 1)
    /\ arrayIncludes(ocrResults.skippedQuestions, 1)
    /\ ~arrayIncludes(ocrResults.detectedQuestions, MaxQuestions)
    /\ ~arrayIncludes(ocrResults.skippedQuestions, MaxQuestions)
    /\ Len(evaluationResults.questionDetails) = MaxQuestions

\* C2: obtainedMarks of the report is the sum of marks_obtained over its
\* question results.
C2_ObtainedIsSum ==
    Reported =>
        evaluationResults.obtainedMarks =
            SumMarksObtained(evaluationResults.questionDetails)

\* C2 witness: a report in which at least two questions earned marks.
C2_Witness ==
    /\ Reported
    /\ Cardinality({i \in 1..Len(evaluationResults.questionDetails) :
            evaluationResults.questionDetails[i].marks_obtained > 0}) >= 2
    /\ evaluationResults.obtainedMarks >= 2

\* C5 as stated: a declared question that is not among the detected ones
\* and has no extracted answer is reported Skipped with 0 marks.  When the
\* skipped list does not name it either, the code leaves the initial status
\* "not-attempted", so this fails.
C5_UnansweredIsSkipped ==
    Reported =>
        /\ Len(evaluationResults.questionDetails) = questionPaper.totalQuestions
        /\ \A k \in 1..questionPaper.totalQuestions :
              (/\ ~arrayIncludes(ocrResults.detectedQuestions, k)
               /\ ocrResults.extractedAnswers[k] = Undefined)
              => (/\ evaluationResults.questionDetails[k].status = "skipped"
                  /\ evaluationResults.questionDetails[k].marks_obtained = 0)

\* C8 as stated: obtainedMarks never exceeds totalMarks.  totalMarks is
\* copied from the question paper and is not the sum of the question marks,
\* so this fails.
C8_ObtainedWithinTotal ==
    Reported => evaluationResults.obtainedMarks <= evaluationResults.totalMarks

(***************************************************************************)
(* Properties of evaluateAnswerSheet, checked under SpecSheet.             *)
(***************************************************************************)
MockPath == DOMAIN mockProgress \cup {"mock_report"}

C11_ExtractedTextIsNeverSkipped ==
    Reported =>
        \A k \in 1..questionPaper.totalQuestions :
            (/\ ocrResults.extractedAnswers[k] # Undefined
             /\ ocrResults.extractedAnswers[k].text # <<>>
             /\ \/ arrayIncludes(ocrResults.detectedQuestions, k)
                \/ arrayIncludes(ocrResults.skippedQuestions, k))
            => (/\ evaluationResults.questionDetails[k].status
                      \in {"correct", "partial", "incorrect"}
                /\ (evaluationResults.questionDetails[k].marks_obtained = 0
                      => evaluationResults.questionDetails[k].status = "incorrect"))

\* ---------------------------------------------------------------------
\* C13: the order of the stages of one evaluation.

StageOrder ==
    <<"extraction", "paper-analysis", "answer-key",
      "scoring", "aggregation", "display">>

\* C13: in the client-side pipeline the stages of an evaluation complete
\* in the order extraction, question-paper analysis, answer-key
\* processing, scoring, aggregation, display: at every moment the stages
\* an invocation has completed are an initial part of that order, so no
\* stage completes before the one that precedes it and none runs twice.
C13_StagesAreSequential ==
    \A i \in Invocations :
        shown[i] # "real" =>
            /\ Len(stages[i]) <= Len(StageOrder)
            /\ \A k \in 1..Len(stages[i]) : stages[i][k] = StageOrder[k]

C13_Witness ==
    \E i \in Invocations :
        /\ shown[i] = "mock"
        /\ failed[i] # "none"
        /\ stages[i] = StageOrder

\* ---------------------------------------------------------------------
\* C14: overlapping invocations.

InFlight == {i \in Invocations : pc[i] \notin {"idle", "done"}}

\* C14 as stated: when evaluateAnswerSheet is invoked twice, at most one
\* evaluation is in flight at any moment (the second is rejected or waits
\* for the first to finish).
C14_AtMostOneInFlight ==
    Cardinality(InFlight) <= 1

\* ---------------------------------------------------------------------
\* C15: malformed reference data. The question papers of this
\* specification allot zero marks to at least one question; the
\* evaluation is the same action as in Spec.

MalformedPapers(n) ==
    {[totalQuestions |-> n,
      totalMarks |-> t,
      questionMarks |-> m,
      questionTypes |-> [q \in 1..n |-> "Short"]] :
        t \in 1..MaxTotalMarks,
        m \in {f \in [1..n -> 0..MaxPaperMarks] : \E q \in 1..n : f[q] = 0}}

InitMalformed ==
    /\ \E n \in 1..MaxQuestions :
        /\ ocrResults \in OcrResults(n)
        /\ questionPaper \in MalformedPapers(n)
        /\ answerKey \in AnswerKeys(n)
    /\ evaluationResults = Pending
    /\ IdleScore
    /\ IdleSheet
    /\ IdleAuth

SpecMalformed == InitMalformed /\ [][Next]_vars

\* C15 as stated: when some question of the paper has maxMarks <= 0, the
\* evaluation fails before any question is scored and no report is
\* produced. (Stated for sheets on which every question is detected with
\* a text and none is listed as skipped.)
C15_MalformedPaperYieldsNoReport ==
    (/\ \E q \in 1..questionPaper.totalQuestions :
            questionPaper.questionMarks[q] <= 0
     /\ \A q \in 1..questionPaper.totalQuestions :
            /\ arrayIncludes(ocrResults.detectedQuestions, q)
            /\ ~arrayIncludes(ocrResults.skippedQuestions, q)
            /\ ocrResults.extractedAnswers[q] # Undefined
            /\ ocrResults.extractedAnswers[q].text # <<>>)
    => evaluationResults = Pending

\* ---------------------------------------------------------------------
\* C16: the percentage of the report.

\* The report's percentage in tenths of a percent.
PercentageTenths ==
    10 * evaluationResults.percentage.units + evaluationResults.percentage.tenths

Abs(x) == IF x < 0 THEN -x ELSE x

\* C16: in every report with 0 <= obtainedMarks <= totalMarks the
\* percentage is obtainedMarks / totalMarks * 100 rounded to one decimal
\* place: it has one decimal digit and no other one-decimal number is
\* nearer to the quotient (it is within 0.05 of it).
C16_PercentageRoundedToOneDecimal ==
    (/\ Reported
     /\ evaluationResults.obtainedMarks <= evaluationResults.totalMarks)
    => /\ evaluationResults.percentage.tenths \in 0..9
       /\ evaluationResults.percentage.units \in 0..100
       /\ 2 * Abs(PercentageTenths * evaluationResults.totalMarks
                    - 1000 * evaluationResults.obtainedMarks)
             <= evaluationResults.totalMarks

\* A report whose quotient is not a one-decimal number and rounds upwards.
C16_Witness ==
    /\ Reported
    /\ evaluationResults.obtainedMarks = 2
    /\ evaluationResults.totalMarks = 3
    /\ evaluationResults.percentage = [units |-> 66, tenths |-> 7]

\* ---------------------------------------------------------------------
\* C17: the bands of conceptScore. The specification SpecBands applies
\* evaluateAnswerWithAI to references of up to MaxBandKeywords keywords,
\* so that every coverage k/5 occurs, with confidence 0, no handwriting
\* bonus and maxMarks 10, where the marks are ten times conceptScore.

BandKeywordLists ==
    {Repeat(KeywordA, i) \o Repeat(KeywordAB, j) :
        i \in 0..MaxBandKeywords, j \in 0..MaxBandKeywords} \cap
    UNION {[1..n -> {KeywordA, KeywordAB}] : n \in 0..MaxBandKeywords}

InitBands ==
    /\ studentAnswer \in [text : Texts, confidence : {0},
                          handwriting_quality : {"poor"}]
    /\ modelAnswer \in [keywords : BandKeywordLists]
    /\ maxMarks = 10
    /\ evaluation = Pending
    /\ IdleReport
    /\ IdleSheet
    /\ IdleAuth

SpecBands == InitBands /\ [][NextScore]_vars

\* The band of a coverage of n keywords out of d, in thousandths, as C17
\* states it.
CoverageBand(n, d) ==
    IF 10 * n > 8 * d THEN 1000
    ELSE IF 10 * n > 6 * d THEN 800
    ELSE IF 10 * n > 4 * d THEN 600
    ELSE IF 10 * n > 2 * d THEN 400
    ELSE 200

\* C17: with a non-empty reference, conceptScore is the band of the
\* fraction of the reference keywords found in the answer text without
\* regard to case: above 0.8 gives 1.0, above 0.6 gives 0.8, above 0.4
\* gives 0.6, above 0.2 gives 0.4, otherwise 0.2, a coverage on a cutpoint
\* falling in the lower band; and the marks awarded follow that band.
C17_CoverageBands ==
    (Scored /\ Len(modelAnswer.keywords) > 0) =>
        LET band == CoverageBand(Cardinality(PresentKeywords),
                                 Len(modelAnswer.keywords))
        IN  /\ conceptScore(keywordScore(studentAnswer, modelAnswer)) = band
            /\ (studentAnswer.confidence = 0
                  /\ studentAnswer.handwriting_quality = "poor")
                 => 1000 * evaluation.marks = band * maxMarks

\* A coverage on the cutpoint 0.8: four keywords of five, eight marks of ten.
C17_Witness ==
    /\ Scored
    /\ Len(modelAnswer.keywords) = 5
    /\ Cardinality(PresentKeywords) = 4
    /\ maxMarks = 10
    /\ evaluation.marks = 8

\* ---------------------------------------------------------------------
\* C18: the marks formula. The specification SpecMarks applies
\* evaluateAnswerWithAI to the answer text "a" with every confidence in
\* hundredths, every handwriting quality, every maxMarks up to MaxMarks
\* and every reference of KeywordLists (coverages 0, 1/3, 1/2, 2/3, 1:
\* one in each band).

Hundredths == 0..100

InitMarks ==
    /\ studentAnswer \in [text : {<<"a">>}, confidence : Hundredths,
                          handwriting_quality : HandwritingQualities]
    /\ modelAnswer \in ModelAnswers
    /\ maxMarks \in 1..MaxMarks
    /\ evaluation = Pending
    /\ IdleReport
    /\ IdleSheet
    /\ IdleAuth

SpecMarks == InitMarks /\ [][NextScore]_vars

\* The bonus of C18 in thousandths: 0.05 for clear, 0.03 for good, 0 for
\* fair, poor and unknown.
StatedBonus ==
    CASE studentAnswer.handwriting_quality = "clear" -> 50
      [] studentAnswer.handwriting_quality = "good" -> 30
      [] studentAnswer.handwriting_quality \in {"fair", "poor", "unknown"} -> 0

\* min(conceptScore + confidence * 0.1 + handwritingBonus, 1.0) in
\* thousandths, with conceptScore the band of the coverage.
StatedScore ==
    Min(CoverageBand(Cardinality(PresentKeywords), Len(modelAnswer.keywords))
            + studentAnswer.confidence + StatedBonus, 1000)

C19_StatusFromRatio ==
    Scored =>
        evaluation.status =
            IF 10 * evaluation.marks >= 8 * maxMarks THEN "correct"
            ELSE IF 10 * evaluation.marks >= 4 * maxMarks THEN "partial"
            ELSE "incorrect"

\* A ratio on the cutpoint 0.8: eight marks of ten, correct.
C19_Witness ==
    /\ Scored
    /\ maxMarks = 10
    /\ evaluation.marks = 8
    /\ evaluation.status = "correct"

\* ---------------------------------------------------------------------
\* C20: the feedback of a scored answer.

\* The templates of the bands of marksObtained / maxMarks.
StatedTemplate ==
    IF evaluation.marks = maxMarks
        THEN "Excellent answer with complete understanding"
    ELSE IF 10 * evaluation.marks >= 8 * maxMarks
        THEN "Very good answer, minor improvements needed"
    ELSE IF 10 * evaluation.marks >= 6 * maxMarks
        THEN "Good understanding shown, needs more detail"
    ELSE IF 10 * evaluation.marks >= 4 * maxMarks
        THEN "Partial understanding, review concepts"
    ELSE IF evaluation.marks > 0
        THEN "Limited understanding, needs significant improvement"
    ELSE "Incorrect or incomplete answer"

LowCoverage == 2 * Cardinality(PresentKeywords) < Len(modelAnswer.keywords)

LowConfidence == studentAnswer.confidence < 80

\* C20: the feedback of an answer scored against a non-empty reference is
\* the template of its band, then the missing-key-concepts qualifier
\* exactly when the coverage is below 0.5, then the handwriting-clarity
\* qualifier exactly when the confidence is below 0.8, and nothing else.
C20_FeedbackComposition ==
    (Scored /\ Len(modelAnswer.keywords) > 0) =>
        evaluation.feedback =
            <<StatedTemplate>>
            \o (IF LowCoverage THEN <<" - Missing key concepts">> ELSE <<>>)
            \o (IF LowConfidence
                THEN <<" - Handwriting clarity could be improved">> ELSE <<>>)

\* A scored answer that carries both qualifiers.
C20_Witness ==
    /\ Scored
    /\ Len(modelAnswer.keywords) > 0
    /\ LowCoverage
    /\ LowConfidence
    /\ Len(evaluation.feedback) = 3
    /\ evaluation.feedback[2] = " - Missing key concepts"

\* ---------------------------------------------------------------------
\* C21: the total of the report.

RECURSIVE SumMarksAllocated(_)
SumMarksAllocated(details) ==
    IF details = <<>> THEN 0
    ELSE details[1].marks_allocated + SumMarksAllocated(Tail(details))

\* C21 as stated: in every report totalMarks is the sum of marks_allocated
\* over the question results of the report.
C21_TotalIsSumOfAllocated ==
    Reported =>
        evaluationResults.totalMarks
            = SumMarksAllocated(evaluationResults.questionDetails)

\* ---------------------------------------------------------------------
\* C22: the time-management note of overallFeedback.

\* The numbers of the questions the report gives status skipped, ascending.
SkippedIndices ==
    ascending({k \in 1..Len(evaluationResults.questionDetails) :
                  evaluationResults.questionDetails[k].status = "skipped"})

TimeManagementNotes ==
    {k \in 1..Len(evaluationResults.overallFeedback) :
        evaluationResults.overallFeedback[k].text
            = " questions were not attempted - work on time management. "}

\* C22 as stated: when some question of the report is skipped,
\* overallFeedback holds a time-management note that names the numbers of
\* the skipped questions in ascending order; when none is, it holds no
\* such note. (Stated for the reports whose skipped results are exactly
\* the questions of the skipped list of the extraction and whose other
\* questions were all scored.)
C22_NoteNamesSkippedIndices ==
    (/\ Reported
     /\ ocrResults.skippedQuestions = SkippedIndices
     /\ \A k \in 1..Len(evaluationResults.questionDetails) :
            evaluationResults.questionDetails[k].status # "not-attempted") =>
        IF SkippedIndices # <<>>
        THEN \E k \in TimeManagementNotes :
                evaluationResults.overallFeedback[k].values = SkippedIndices
        ELSE TimeManagementNotes = {}

\* ---------------------------------------------------------------------
\* C23: the OCR-quality caveat of overallFeedback. The specification
\* SpecCaveat evaluates sheets whose answers have confidence 0.70 or 0.90
\* and whose overall ocrConfidence is 0.80 or 0.86, against papers of one
\* mark per question.

CaveatAnswers ==
    {Undefined} \cup
    {[text |-> <<"a">>, confidence |-> c, handwriting_quality |-> "clear"] :
        c \in {70, 90}}

CaveatOcrResults(n) ==
    {[detectedQuestions |-> ascending(d),
      skippedQuestions |-> ascending(k),
      extractedAnswers |-> e,
      ocrConfidence |-> o] :
        d \in SUBSET (1..n), k \in SUBSET (1..n),
        e \in [1..n -> CaveatAnswers], o \in {80, 86}}

CaveatPaper(n) ==
    [totalQuestions |-> n,
     totalMarks |-> n,
     questionMarks |-> [q \in 1..n |-> 1],
     questionTypes |-> [q \in 1..n |-> "Short"]]

InitCaveat ==
    /\ \E n \in 1..MaxQuestions :
        /\ ocrResults \in CaveatOcrResults(n)
        /\ questionPaper = CaveatPaper(n)
        /\ answerKey \in AnswerKeys(n)
    /\ evaluationResults = Pending
    /\ IdleScore
    /\ IdleSheet
    /\ IdleAuth

SpecCaveat == InitCaveat /\ [][Next]_vars

\* The questions of the report that were scored.
AnsweredIndices ==
    {k \in 1..Len(evaluationResults.questionDetails) :
        evaluationResults.questionDetails[k].status
            \in {"correct", "partial", "incorrect"}}

RECURSIVE SumConfidence(_)
SumConfidence(S) ==
    IF S = {} THEN 0
    ELSE LET k == CHOOSE x \in S : TRUE
         IN  evaluationResults.questionDetails[k].ocr_confidence
                + SumConfidence(S \ {k})

OcrCaveats ==
    {k \in 1..Len(evaluationResults.overallFeedback) :
        evaluationResults.overallFeedback[k].text
            = "Note: Some answers had handwriting clarity issues which may have affected evaluation. "}

\* C23 as stated: overallFeedback carries the OCR-quality caveat exactly
\* when the average of the confidences of the answered questions of the
\* report is below the threshold, 0.85. (Stated for the reports with at
\* least one answered question.)
C23_CaveatFromAverageConfidence ==
    (Reported /\ AnsweredIndices # {}) =>
        (OcrCaveats # {}
            <=> SumConfidence(AnsweredIndices) < 85 * Cardinality(AnsweredIndices))

\* ---------------------------------------------------------------------
\* C28: the summary counts of the report.

\* C28 as stated: skippedCount is the number of question results with
\* status skipped, answeredCount the number of results with status
\* correct, partial or incorrect, and the two add up to totalQuestions.
\* (Stated for the sheets on which every question is listed exactly once,
\* either as detected or as skipped.)
C28_CountsAgreeWithResults ==
    (/\ Reported
     /\ \A k \in 1..questionPaper.totalQuestions :
            arrayIncludes(ocrResults.detectedQuestions, k)
                <=> ~arrayIncludes(ocrResults.skippedQuestions, k)) =>
        /\ evaluationResults.skippedCount = Len(SkippedIndices)
        /\ evaluationResults.answeredCount = Cardinality(AnsweredIndices)
        /\ evaluationResults.answeredCount + evaluationResults.skippedCount
              = evaluationResults.totalQuestions

\* ---------------------------------------------------------------------
\* C24: low coverage and status correct. The specification
\* SpecLowCoverage applies evaluateAnswerWithAI to the answer text "a" and
\* references of i keywords "a" and j > i keywords "aB", of which the text
\* holds fewer than half (coverages 0, 1/3, 1/4, 2/5, 3/7, ...: the bands
\* 0.2, 0.4 and 0.6), with every confidence in hundredths, every
\* handwriting quality and every maxMarks up to MaxMarks.

LowCoverageLists ==
    {Repeat(KeywordA, i) \o Repeat(KeywordAB, j) :
        i \in 0..MaxKeywords, j \in 1..(MaxKeywords + 1)} \cap
    UNION {{Repeat(KeywordA, i) \o Repeat(KeywordAB, j) : i \in 0..(j - 1)} :
              j \in 1..(MaxKeywords + 1)}

InitLowCoverage ==
    /\ studentAnswer \in [text : {<<"a">>}, confidence : Hundredths,
                          handwriting_quality : HandwritingQualities]
    /\ modelAnswer \in [keywords : LowCoverageLists]
    /\ maxMarks \in 1..MaxMarks
    /\ evaluation = Pending
    /\ IdleReport
    /\ IdleSheet
    /\ IdleAuth

SpecLowCoverage == InitLowCoverage /\ [][NextScore]_vars

\* C24 as stated: an answer that holds fewer than half of the reference
\* keywords never gets status correct or full marks, for any maxMarks, so
\* that no correct result carries the missing-key-concepts qualifier.
C24_LowCoverageNeverCorrect ==
    (Scored /\ LowCoverage) =>
        /\ evaluation.status # "correct"
        /\ evaluation.marks # maxMarks

\* C24 amended: an answer that holds fewer than half of the reference
\* keywords never gets full marks when maxMarks is 3 or more, and never
\* gets status correct when maxMarks is none of 1, 2, 5, 6 and 10; and
\* whenever it is scored it carries the missing-key-concepts qualifier.
C24_LowCoverageCorrectOnlyBySmallMarks ==
    (Scored /\ LowCoverage) =>
        /\ maxMarks >= 3 => evaluation.marks # maxMarks
        /\ maxMarks \notin {1, 2, 5, 6, 10} => evaluation.status # "correct"
        /\ evaluation.feedback[2] = " - Missing key concepts"

\* Three keywords of seven at the highest confidence and clear
\* handwriting, the largest score a low coverage can reach (0.75): five
\* marks of seven, partial.
C24_Witness ==
    /\ Scored
    /\ LowCoverage
    /\ Len(modelAnswer.keywords) = 7
    /\ Cardinality(PresentKeywords) = 3
    /\ studentAnswer.confidence = 100
    /\ studentAnswer.handwriting_quality = "clear"
    /\ maxMarks = 7
    /\ evaluation.marks = 5
    /\ evaluation.status = "partial"

\* ---------------------------------------------------------------------
\* C25: monotonicity of the marks. The specification SpecMono applies
\* evaluateAnswerWithAI to four texts (matching no keyword, the keyword
\* "a" only, or both keywords), the confidences 0, 0.25, ..., 1,
\* every handwriting quality, every reference of KeywordLists and every
\* maxMarks up to MaxMarks; the property compares the marks awarded with
\* the marks of every answer that is no worse in one of the three inputs.

QuarterConfidences == {25 * k : k \in 0..4}

MonoTexts == {<<>>, <<"B">>, <<"a">>, <<"a", "B">>}

InitMono ==
    /\ studentAnswer \in [text : MonoTexts, confidence : QuarterConfidences,
                          handwriting_quality : HandwritingQualities]
    /\ modelAnswer \in ModelAnswers
    /\ maxMarks \in 1..MaxMarks
    /\ evaluation = Pending
    /\ IdleReport
    /\ IdleSheet
    /\ IdleAuth

SpecMono == InitMono /\ [][NextScore]_vars

\* The order of C25 on the handwriting qualities.
QualityRank(q) ==
    CASE q \in {"poor", "fair"} -> 0
      [] q = "good" -> 1
      [] q = "clear" -> 2

MatchedKeywords(text) ==
    Cardinality({i \in 1..Len(modelAnswer.keywords) :
        includes(toLowerCase(text), toLowerCase(modelAnswer.keywords[i]))})

MarksFor(answer) == evaluateAnswerWithAI(answer, modelAnswer, maxMarks).marks

\* C25: with the reference, maxMarks and the other inputs fixed, an answer
\* text that matches at least as many keywords, a confidence at least as
\* high, or a handwriting quality at least as good (poor and fair below
\* good below clear) never yields fewer marks than the answer scored.
C25_MarksAreMonotone ==
    Scored =>
        /\ \A t \in MonoTexts :
              MatchedKeywords(t) >= MatchedKeywords(studentAnswer.text)
              => MarksFor([studentAnswer EXCEPT !.text = t]) >= evaluation.marks
        /\ \A c \in QuarterConfidences :
              c >= studentAnswer.confidence
              => MarksFor([studentAnswer EXCEPT !.confidence = c]) >= evaluation.marks
        /\ \A q \in HandwritingQualities \ {"unknown"} :
              (/\ studentAnswer.handwriting_quality # "unknown"
               /\ QualityRank(q) >= QualityRank(studentAnswer.handwriting_quality))
              => MarksFor([studentAnswer EXCEPT !.handwriting_quality = q])
                    >= evaluation.marks

\* A scored answer that matches two keywords of three, for which the text
\* matching all three strictly raises the marks.
C25_Witness ==
    /\ Scored
    /\ Len(modelAnswer.keywords) = 3
    /\ MatchedKeywords(studentAnswer.text) = 2
    /\ \E t \in MonoTexts :
          /\ MatchedKeywords(t) = 3
          /\ MarksFor([studentAnswer EXCEPT !.text = t]) > evaluation.marks

\* ---------------------------------------------------------------------
\* C26: the progress shown by one invocation.

\* C26 as stated: within one invocation the percentage shown never
\* decreases from one progress update to the next, on every path.
C26_ProgressNeverDecreases ==
    \A i \in Invocations :
        \A k \in 1..(Len(progress[i]) - 1) :
            progress[i][k] <= progress[i][k + 1]

\* ---------------------------------------------------------------------
\* C27: every invocation ends by displaying results once. SpecSheetFair
\* adds to SpecSheet that pending network calls settle and pending timers
\* fire. No step of one invocation disables a pending step of another and
\* every invocation takes finitely many steps, so weak fairness on the
\* disjunction of these steps is what weak fairness on each of them gives.

SettleOrFire ==
    \E i \in Invocations :
        \/ FeaturesFetchSettles(i)
        \/ FeaturesJsonSettles(i)
        \/ ProcessFetchSettles(i)
        \/ ProcessJsonSettles(i)
        \/ RealTimer(i)
        \/ RealReport(i)
        \/ MockTimer(i)
        \/ MockReport(i)

SpecSheetFair == SpecSheet /\ WF_vars(SettleOrFire)

Displays(i) ==
    Cardinality({k \in 1..Len(stages[i]) : stages[i][k] = "display"})

\* An invocation displays results at most once, from one path, as its
\* last step and straight after a 100% progress update of its own; and
\* an invocation with a file selected does not end without displaying.
DisplaysOnceAfterFullProgress ==
    \A i \in Invocations :
        /\ Displays(i) <= 1
        /\ shown[i] = "none" <=> Displays(i) = 0
        /\ shown[i] # "none" =>
              /\ pc[i] = "done"
              /\ progress[i] # <<>>
              /\ progress[i][Len(progress[i])] = 100
        /\ shown[i] = "mock" =>
              stages[i][Len(stages[i])] = "display" /\ Len(stages[i]) > 1
        /\ shown[i] = "real" => stages[i] = <<"display">>
        /\ (pc[i] = "done" /\ i \notin alerted) => shown[i] # "none"

Accounts == {"student", "examiner"}

AccessToken(account) == [access_token |-> account]

Profile(account) == [user_type |-> account]

\* The userType prop of a ProtectedRoute: absent, or a required type.
RouteTypes == {"undefined"} \cup Accounts

NoRequests == [a \in Accounts |-> 0]

RequestsInFlight(requests) == requests["student"] + requests["examiner"]

\* isAuthenticated computed from the token alone.
isAuthenticatedMutantTokenOnly(tok, usr) == tok # Null

\* isAuthenticated: !!token && !!user
isAuthenticated(tok, usr) == tok # Null /\ usr # Null

\* user?.user_type
userTypeOf(usr) == IF usr = Null THEN "undefined" ELSE usr.user_type

\* What ProtectedRoute returns for a context value and its userType prop.
ProtectedRoute(isLoading, tok, usr, userType) ==
    IF isLoading THEN "spinner"
    ELSE IF ~isAuthenticated(tok, usr) THEN "/login"
    ELSE IF userType # "undefined" /\ userTypeOf(usr) # userType
         THEN IF userTypeOf(usr) = "student" THEN "/student/dashboard"
              ELSE "/examiner/dashboard"
    ELSE "children"

\* The re-render that follows every change of the context value.
Render == page' = ProtectedRoute(loading', token', user', route)

\* useState initial values: user null, loading true, token read from
\* localStorage; the effect runs after the first render.
InitAuth ==
    /\ user = Null
    /\ loading = TRUE
    /\ token \in {Null} \cup {AccessToken(a) : a \in Accounts}
    /\ effectPending = TRUE
    /\ loginRequests = NoRequests
    /\ profileRequests = NoRequests
    /\ route \in RouteTypes
    /\ page = "spinner"
    /\ IdleScore
    /\ IdleReport
    /\ IdleSheet

\* The effect on [token]: with a token it calls fetchUserProfile, which
\* sends GET /api/auth/me; without one it ends the loading state.
RunEffect ==
    /\ effectPending
    /\ effectPending' = FALSE
    /\ IF token # Null
       THEN /\ RequestsInFlight(profileRequests) < MaxInFlight
            /\ profileRequests' =
                 [profileRequests EXCEPT ![token.access_token] = @ + 1]
            /\ UNCHANGED loading
       ELSE /\ loading' = FALSE
            /\ UNCHANGED profileRequests
    /\ UNCHANGED <<user, token, loginRequests, route>>
    /\ Render
    /\ UNCHANGED <<scoreVars, reportVars, sheetVars>>

\* login up to its await: the post to the login endpoint of the account.
LoginStart(account) ==
    /\ RequestsInFlight(loginRequests) < MaxInFlight
    /\ loginRequests' = [loginRequests EXCEPT ![account] = @ + 1]
    /\ UNCHANGED <<user, token, loading, effectPending, profileRequests,
                   route, page>>
    /\ UNCHANGED <<scoreVars, reportVars, sheetVars>>

\* The login post settles: on success setToken(access_token) and a call of
\* fetchUserProfile; on failure the catch block returns the error.
LoginSettles(account) ==
    /\ loginRequests[account] > 0
    /\ loginRequests' = [loginRequests EXCEPT ![account] = @ - 1]
    /\ \E ok \in BOOLEAN :
        IF ok
        THEN /\ RequestsInFlight(profileRequests) < MaxInFlight
             /\ token' = AccessToken(account)
             /\ effectPending' = (effectPending \/ token # AccessToken(account))
             /\ profileRequests' = [profileRequests EXCEPT ![account] = @ + 1]
        ELSE UNCHANGED <<token, effectPending, profileRequests>>
    /\ UNCHANGED <<user, loading, route>>
    /\ Render
    /\ UNCHANGED <<scoreVars, reportVars, sheetVars>>

\* logout: setUser(null), setToken(null).
Logout ==
    /\ user' = Null
    /\ token' = Null
    /\ effectPending' = (effectPending \/ token # Null)
    /\ UNCHANGED <<loading, loginRequests, profileRequests, route>>
    /\ Render
    /\ UNCHANGED <<scoreVars, reportVars, sheetVars>>

\* GET /api/auth/me settles in fetchUserProfile: on success
\* setUser(response.data), on failure logout(); setLoading(false) in both.
ProfileSettles(account) ==
    /\ profileRequests[account] > 0
    /\ profileRequests' = [profileRequests EXCEPT ![account] = @ - 1]
    /\ \E ok \in BOOLEAN :
        IF ok
        THEN /\ user' = Profile(account)
             /\ UNCHANGED <<token, effectPending>>
        ELSE /\ user' = Null
             /\ token' = Null
             /\ effectPending' = (effectPending \/ token # Null)
    /\ loading' = FALSE
    /\ UNCHANGED <<loginRequests, route>>
    /\ Render
    /\ UNCHANGED <<scoreVars, reportVars, sheetVars>>

NextAuth ==
    \/ RunEffect
    \/ Logout
    \/ \E account \in Accounts :
        \/ LoginStart(account)
        \/ LoginSettles(account)
        \/ ProfileSettles(account)

SpecAuth == InitAuth /\ [][NextAuth]_vars

\* ---------------------------------------------------------------------
\* C29: what ProtectedRoute renders.

\* C29: the ProtectedRoute renders its children exactly when loading is
\* false, token and user are both set and, when a userType is required,
\* user.user_type equals it; in every other state it renders the spinner
\* or a redirect.
C29_ChildrenOnlyWhenAuthorised ==
    /\ page = "children" <=>
          /\ ~loading
          /\ token # Null
          /\ user # Null
          /\ route # "undefined" => user.user_type = route
    /\ page # "children" =>
          page \in {"spinner", "/login", "/student/dashboard", "/examiner/dashboard"}

\* A route that requires a student renders its children for a student.
C29_Witness ==
    /\ route = "student"
    /\ page = "children"
    /\ user = Profile("student")
    /\ token # Null

\* ---------------------------------------------------------------------
\* C30: user and token in AuthProvider.

\* C30 as stated: user is non-null only while token is non-null, under
\* every interleaving of login, logout and the completion of profile
\* requests in flight.
C30_UserOnlyWithToken ==
    user # Null => token # Null

====
